---- MODULE Spec2Model ----
(***************************************************************************)
(* Model of the Autostep host-side driver (software/node/autostep/         *)
(* autostep.js): the command facade over a single serial transport, the    *)
(* sinusoid streaming session flag, the busyWait polling loop and the      *)
(* setParams / getParams aggregates.                                       *)
(*                                                                         *)
(* One action is one run-to-completion segment of the JavaScript event     *)
(* loop: a facade call up to its first await, a timer tick, or a line      *)
(* delivered by the serial device together with the promise continuation   *)
(* it wakes.                                                               *)
(***************************************************************************)
EXTENDS Integers, Sequences, FiniteSets, TLC

VARIABLES
  sinusoidRunning,  \* Autostep.sinusoidRunning
  streamCallback,   \* the stream consumer registered with the device
  pending,          \* the device's single pending-reply waiter (a task or None)
  written,          \* command lines written to the transport, in order
  pc,               \* position of every asynchronous task
  result,           \* settled outcome of the task's last _sendCmd promise
  lastCallback,     \* the last (err, rsp) the device handed to a _sendCmd callback
  nSends,           \* number of _sendCmd invocations so far
  nSamples,         \* number of stream samples delivered so far
  forwarded,        \* number of samples forwarded to the caller's streamCallback
  bw,               \* busyWait bookkeeping: session flag at call, polls sent since call
  sp,               \* setParams locals: params, loop position, setters sent, return value
  gp,               \* getParams locals: position, getters sent, replies, return value
  stream,           \* the last stream sample and whether the session has seen its end
  gearRatio,        \* Autostep.gearRatio
  devicePosition,   \* the position the device was last commanded to
  gear,             \* moveTo / getPosition round trip: position asked, position read back
  auto,             \* autosetPositionProcedure: position, reject() calls, first failure
  cb                \* the caller's callback per call: behaviour and invocations

\* the connection, the session flag and the tasks of the protocol engine
coreVars == <<sinusoidRunning, streamCallback, pending, written, pc, result,
              lastCallback, nSends, nSamples, forwarded, bw, sp, gp>>
gearVars == <<gearRatio, devicePosition, gear>>

vars == <<coreVars, stream, gearVars, auto, cb>>

(***************************************************************************)
(* Bounds of the model.                                                    *)
(***************************************************************************)
MaxSends == 3
MaxSamples == 2

(***************************************************************************)
(* Tasks: two independent facade callers, one busyWait, one sinusoid, one  *)
(* setParams and one getParams.                                            *)
(***************************************************************************)
Callers == {"c1", "c2"}
Tasks == Callers \cup {"bw", "sin", "sp", "gp"}
None == "none"
Null == "null"

\* the command the generic callers send (moveTo)
CallerCmds == {"move_to"}

(***************************************************************************)
(* Lines on the wire and JSON.parse.                                       *)
(***************************************************************************)
LineOk == "{\"success\":true}"
LineFail == "{\"success\":false}"
LineBusy == "{\"success\":true,\"is_busy\":true}"
LineIdle == "{\"success\":true,\"is_busy\":false}"
LineFailBusy == "{\"success\":false,\"is_busy\":true}"
LineFailMsg == "{\"success\":false,\"message\":\"bad value\"}"
LineFullstep == "{\"success\":true,\"fullstep_per_rev\":200}"
LineStepMode == "{\"success\":true,\"step_mode\":\"STEP_FS_64\"}"
LineThreshold == "{\"success\":true,\"threshold\":\"OC_750mA\"}"
LineMoveMode == "{\"success\":true,\"speed\":100,\"accel\":50,\"decel\":50}"
LineKval == "{\"success\":true,\"accel\":30,\"decel\":30,\"run\":30,\"hold\":15}"
LineBad == "}not json"
NoLine == ""

\* JSON.parse: the parsed object, or a SyntaxError for text that is not JSON
JSONparse(line) ==
  CASE line = LineOk -> [ok |-> TRUE, obj |-> [success |-> TRUE]]
    [] line = LineFail -> [ok |-> TRUE, obj |-> [success |-> FALSE]]
    [] line = LineBusy -> [ok |-> TRUE, obj |-> [success |-> TRUE, is_busy |-> TRUE]]
    [] line = LineIdle -> [ok |-> TRUE, obj |-> [success |-> TRUE, is_busy |-> FALSE]]
    [] line = LineFailBusy -> [ok |-> TRUE, obj |-> [success |-> FALSE, is_busy |-> TRUE]]
    [] line = LineFailMsg ->
         [ok |-> TRUE, obj |-> [success |-> FALSE, message |-> "bad value"]]
    [] line = LineFullstep ->
         [ok |-> TRUE, obj |-> [success |-> TRUE, fullstep_per_rev |-> 200]]
    [] line = LineStepMode ->
         [ok |-> TRUE, obj |-> [success |-> TRUE, step_mode |-> "STEP_FS_64"]]
    [] line = LineThreshold ->
         [ok |-> TRUE, obj |-> [success |-> TRUE, threshold |-> "OC_750mA"]]
    [] line = LineMoveMode ->
         [ok |-> TRUE, obj |-> [success |-> TRUE, speed |-> 100, accel |-> 50, decel |-> 50]]
    [] line = LineKval ->
         [ok |-> TRUE,
          obj |-> [success |-> TRUE, accel |-> 30, decel |-> 30, run |-> 30, hold |-> 15]]
    [] OTHER -> [ok |-> FALSE]

\* JavaScript truthiness of obj[key] for a boolean-valued field (undefined is falsy)
Truthy(obj, key) == key \in DOMAIN obj /\ obj[key] = TRUE

\* what the device may answer to a command: a reply line or a transport error
ReplyLines(cmd) ==
  CASE cmd = "is_busy" -> {LineBusy, LineIdle, LineFail, LineFailBusy, LineBad}
    [] cmd \in {"set_fullstep_per_rev", "set_step_mode", "set_oc_threshold",
                "set_jog_mode_params", "set_max_mode_params", "set_kval_params"} ->
         {LineOk, LineFail, LineFailMsg, LineBad}
    [] cmd = "get_fullstep_per_rev" -> {LineFullstep, LineFail, LineBad}
    [] cmd = "get_step_mode" -> {LineStepMode, LineFail, LineBad}
    [] cmd = "get_oc_threshold" -> {LineThreshold, LineFail, LineBad}
    [] cmd \in {"get_jog_mode_params", "get_max_mode_params"} ->
         {LineMoveMode, LineFail, LineBad}
    [] cmd = "get_kval_params" -> {LineKval, LineFail, LineBad}
    [] OTHER -> {LineOk, LineFail, LineBad}

Responses(cmd) ==
  {[err |-> Null, rsp |-> l] : l \in ReplyLines(cmd)}
    \cup {[err |-> "TransportError", rsp |-> NoLine]}

(***************************************************************************)
(* Promise outcomes.                                                       *)
(***************************************************************************)
NoResult == [state |-> "none"]
Unsettled == [state |-> "pending"]
Resolved(obj) == [state |-> "resolved", val |-> obj]
Rejected(e) == [state |-> "rejected", error |-> e]

\* variant: the `if (err)` branch is missing, so an error falls through to JSON.parse
SendCmdCallbackNoErrBranch(err, rsp) ==
  IF err = Null /\ JSONparse(rsp).ok
    THEN Resolved(JSONparse(rsp).obj)
    ELSE Rejected("SyntaxError")

\* variant: an error from the device never settles the promise
SendCmdCallbackErrUnsettled(err, rsp) ==
  IF err # Null THEN Unsettled
  ELSE IF JSONparse(rsp).ok
         THEN Resolved(JSONparse(rsp).obj)
         ELSE Rejected("SyntaxError")

\* variant: the catch block does not reject, so resolve(null) settles the promise
SendCmdCallbackCatchResolves(err, rsp) ==
  IF err # Null THEN Rejected(err)
  ELSE IF JSONparse(rsp).ok
         THEN Resolved(JSONparse(rsp).obj)
         ELSE Resolved([k \in {} |-> Null])

\* the callback _sendCmd hands to device.sendCmd: settles the promise
SendCmdCallback(err, rsp) ==
  IF err # Null THEN Rejected(err)
  ELSE IF JSONparse(rsp).ok
         THEN Resolved(JSONparse(rsp).obj)
         ELSE Rejected("SyntaxError")   \* reject(err); the later resolve(null) is a no-op

(***************************************************************************)
(* The serial device: one pending waiter; a send while one is pending is   *)
(* refused synchronously and nothing is written.                           *)
(***************************************************************************)
DeviceAccepts == pending = None

\* _sendCmd(cmd) called by task t: the promise's state when the call returns
SendOutcome == IF DeviceAccepts THEN Unsettled
               ELSE SendCmdCallback("ProtocolViolation", NoLine)

\* _sendCmd(cmd) called by task t: its effect on the device and the transport
\* (running: the session flag at the moment of the call, recorded with the write)
_sendCmd(t, cmd, running) ==
  /\ nSends' = nSends + 1
  /\ IF DeviceAccepts
       THEN /\ pending' = t
            /\ written' = Append(written,
                 [cmd |-> cmd, by |-> t, running |-> running])
            /\ UNCHANGED lastCallback
       ELSE /\ UNCHANGED <<pending, written>>
            /\ lastCallback' = [to |-> t, err |-> "ProtocolViolation", rsp |-> NoLine,
                                outcome |-> SendOutcome]

\* number of responses the device has delivered
Replies == Len(written) - (IF pending = None THEN 0 ELSE 1)

\* the command the pending waiter is waiting on
PendingCmd == IF written = <<>> THEN None ELSE written[Len(written)].cmd

(***************************************************************************)
(* Generic facade commands (moveTo, softStop, ...): return this._sendCmd.  *)
(***************************************************************************)
Call(c, cmd) ==
  /\ pc[c] = "idle"
  /\ nSends < MaxSends
  /\ _sendCmd(c, cmd, sinusoidRunning)
  /\ pc' = [pc EXCEPT ![c] = IF SendOutcome.state = "pending" THEN "awaiting"
                              ELSE SendOutcome.state]
  /\ result' = [result EXCEPT ![c] = SendOutcome]
  /\ UNCHANGED <<sinusoidRunning, streamCallback, nSamples, forwarded, bw, sp, gp>>

CallReply(c, r) ==
  /\ pending = c
  /\ pc[c] = "awaiting"
  /\ pending' = None
  /\ lastCallback' = [to |-> c, err |-> r.err, rsp |-> r.rsp,
                      outcome |-> SendCmdCallback(r.err, r.rsp)]
  /\ pc' = [pc EXCEPT ![c] = SendCmdCallback(r.err, r.rsp).state]
  /\ result' = [result EXCEPT ![c] = SendCmdCallback(r.err, r.rsp)]
  /\ UNCHANGED <<sinusoidRunning, streamCallback, written, nSends, nSamples,
                 forwarded, bw, sp, gp>>

\* the caller has consumed the settled promise and may call again
Return(c) ==
  /\ pc[c] \in {"resolved", "rejected"}
  /\ pc' = [pc EXCEPT ![c] = "idle"]
  /\ result' = [result EXCEPT ![c] = NoResult]
  /\ UNCHANGED <<sinusoidRunning, streamCallback, pending, written, lastCallback,
                 nSends, nSamples, forwarded, bw, sp, gp>>

(***************************************************************************)
(* busyWait: a loop of 10 ms sleeps; at each tick it either looks at the   *)
(* session flag or sends is_busy and awaits the reply.                     *)
(***************************************************************************)
\* variant: the tick polls whether or not a session is active
BusyWaitNeverStreaming(running) == FALSE

\* line 130: the tick takes the streaming branch
BusyWaitStreaming(running) == running

\* lines 131-133: inside the streaming branch, done is set only if the flag is
\* false, which the enclosing test has just excluded
BusyWaitStreamingDone(running) == ~running

\* variant: a failed status query is not the end of the wait
BusyWaitDoneOnlyWhenIdle(rsp) == Truthy(rsp, "success") /\ ~Truthy(rsp, "is_busy")

\* variant: the success field is not consulted
BusyWaitDoneIgnoresSuccess(rsp) == ~Truthy(rsp, "is_busy")

\* variant: the busy flag is not negated
BusyWaitDoneNotNegated(rsp) ==
  IF Truthy(rsp, "success") THEN Truthy(rsp, "is_busy") ELSE TRUE

\* lines 136-140: done after an is_busy reply
BusyWaitDone(rsp) ==
  IF Truthy(rsp, "success") THEN ~Truthy(rsp, "is_busy") ELSE TRUE

\* the position of busyWait after its isBusy() promise has the given outcome
BusyWaitAfter(o) ==
  CASE o.state = "pending" -> "awaiting"
    [] o.state = "resolved" -> IF BusyWaitDone(o.val) THEN "done" ELSE "sleeping"
    [] OTHER -> "stuck"   \* the await throws inside the executor: never settled

BusyWaitCall ==
  /\ pc["bw"] = "idle"
  /\ pc' = [pc EXCEPT !["bw"] = "sleeping"]
  /\ bw' = [startedActive |-> sinusoidRunning, polls |-> 0]
  /\ UNCHANGED <<sinusoidRunning, streamCallback, pending, written, result,
                 lastCallback, nSends, nSamples, forwarded, sp, gp>>

BusyWaitTick ==
  /\ pc["bw"] = "sleeping"
  /\ IF BusyWaitStreaming(sinusoidRunning)
       THEN /\ pc' = [pc EXCEPT !["bw"] =
                        IF BusyWaitStreamingDone(sinusoidRunning) THEN "done"
                        ELSE "sleeping"]
            /\ UNCHANGED <<pending, written, lastCallback, nSends, bw, result>>
       ELSE /\ nSends < MaxSends
            /\ _sendCmd("bw", "is_busy", sinusoidRunning)
            /\ pc' = [pc EXCEPT !["bw"] = BusyWaitAfter(SendOutcome)]
            /\ result' = [result EXCEPT !["bw"] = SendOutcome]
            /\ bw' = [bw EXCEPT !.polls = IF DeviceAccepts THEN @ + 1 ELSE @]
  /\ UNCHANGED <<sinusoidRunning, streamCallback, nSamples, forwarded, sp, gp>>

BusyWaitReply(r) ==
  /\ pending = "bw"
  /\ pc["bw"] = "awaiting"
  /\ pending' = None
  /\ lastCallback' = [to |-> "bw", err |-> r.err, rsp |-> r.rsp,
                      outcome |-> SendCmdCallback(r.err, r.rsp)]
  /\ pc' = [pc EXCEPT !["bw"] = BusyWaitAfter(SendCmdCallback(r.err, r.rsp))]
  /\ result' = [result EXCEPT !["bw"] = SendCmdCallback(r.err, r.rsp)]
  /\ UNCHANGED <<sinusoidRunning, streamCallback, written, nSends, nSamples,
                 forwarded, bw, sp, gp>>

\* the caller has seen busyWait resolve and may wait again
BusyWaitReturn ==
  /\ pc["bw"] = "done"
  /\ pc' = [pc EXCEPT !["bw"] = "idle"]
  /\ result' = [result EXCEPT !["bw"] = NoResult]
  /\ UNCHANGED <<sinusoidRunning, streamCallback, pending, written, lastCallback,
                 nSends, nSamples, forwarded, bw, sp, gp>>

(***************************************************************************)
(* sinusoid: registers the wrapped stream callback, raises the session     *)
(* flag, sends the command and awaits its acknowledgement.                 *)
(***************************************************************************)
Wrapped == "streamCallbackWrapped"

\* variant: the session is not marked active before the command is written
SinusoidCallActivatesLate ==
  /\ pc["sin"] = "idle"
  /\ nSends < MaxSends
  /\ streamCallback' = Wrapped
  /\ _sendCmd("sin", "sinusoid", sinusoidRunning)
  /\ pc' = [pc EXCEPT !["sin"] = IF SendOutcome.state = "pending" THEN "awaiting"
                                  ELSE SendOutcome.state]
  /\ result' = [result EXCEPT !["sin"] = SendOutcome]
  /\ UNCHANGED <<sinusoidRunning, nSamples, forwarded, bw, sp, gp>>

SinusoidCall ==
  /\ pc["sin"] = "idle"
  /\ nSends < MaxSends
  /\ streamCallback' = Wrapped
  /\ sinusoidRunning' = TRUE
  /\ _sendCmd("sin", "sinusoid", TRUE)
  /\ pc' = [pc EXCEPT !["sin"] = IF SendOutcome.state = "pending" THEN "awaiting"
                                  ELSE SendOutcome.state]
  /\ result' = [result EXCEPT !["sin"] = SendOutcome]
  /\ UNCHANGED <<nSamples, forwarded, bw, sp, gp>>

SinusoidReply(r) ==
  /\ pending = "sin"
  /\ pc["sin"] = "awaiting"
  /\ pending' = None
  /\ lastCallback' = [to |-> "sin", err |-> r.err, rsp |-> r.rsp,
                      outcome |-> SendCmdCallback(r.err, r.rsp)]
  /\ pc' = [pc EXCEPT !["sin"] = SendCmdCallback(r.err, r.rsp).state]
  /\ result' = [result EXCEPT !["sin"] = SendCmdCallback(r.err, r.rsp)]
  /\ UNCHANGED <<sinusoidRunning, streamCallback, written, nSends, nSamples,
                 forwarded, bw, sp, gp>>

SinusoidReturn ==
  /\ pc["sin"] \in {"resolved", "rejected"}
  /\ pc' = [pc EXCEPT !["sin"] = "idle"]
  /\ result' = [result EXCEPT !["sin"] = NoResult]
  /\ UNCHANGED <<sinusoidRunning, streamCallback, pending, written, lastCallback,
                 nSends, nSamples, forwarded, bw, sp, gp>>

\* stream samples the device may hand to the stream callback: (err, data)
SampleData == "{\"t\":1}"
SampleEmpty == "{}"
Samples == {[err |-> Null, data |-> SampleData],
            [err |-> Null, data |-> SampleEmpty],
            [err |-> "StreamError", data |-> Null]}

\* line 65: err || _.isEmpty(data)
\* a terminating sample: it carries an error or its data is empty
EmptyOrError(s) == s.err # Null \/ s.data \in {SampleEmpty, Null}

\* variant: only an error ends the session
StreamEndsOnErrorOnly(s) == s.err # Null

StreamEnds(s) == s.err # Null \/ s.data \in {SampleEmpty, Null}

\* the device streams only after a sinusoid command has reached it
SinusoidWritten == \E i \in DOMAIN written : written[i].cmd = "sinusoid"

\* streamCallbackWrapped(err, data), lines 64-71
StreamSample(s) ==
  /\ streamCallback = Wrapped
  /\ SinusoidWritten
  /\ nSamples < MaxSamples
  /\ nSamples' = nSamples + 1
  /\ sinusoidRunning' = IF StreamEnds(s) THEN FALSE ELSE sinusoidRunning
  /\ forwarded' = forwarded + 1
  /\ UNCHANGED <<streamCallback, pending, written, pc, result, lastCallback,
                 nSends, bw, sp, gp>>

(***************************************************************************)
(* setParams: a table of setters applied in declaration order.             *)
(***************************************************************************)
\* lines 286-293: the keys of paramSetters, in for-in (insertion) order
ParamNames == <<"fullstepPerRev", "stepMode", "threshold", "jogMode", "maxMode", "kval">>

\* lines 286-293 with the command each setter method sends
SetterCmd == [fullstepPerRev |-> "set_fullstep_per_rev",
              stepMode |-> "set_step_mode",
              threshold |-> "set_oc_threshold",
              jogMode |-> "set_jog_mode_params",
              maxMode |-> "set_max_mode_params",
              kval |-> "set_kval_params"]

\* a field of the params argument: absent, present with a falsy value
\* (0, "", null), or present with a truthy value
ParamKinds == {"absent", "falsy", "truthy"}
ParamsArgs == [{ParamNames[i] : i \in DOMAIN ParamNames} -> ParamKinds]

\* line 299: if (params[paramName])
SetterApplies(params, name) == params[name] = "truthy"

\* variant: a failing reply does not end the loop
SetParamsNeverStops(rsp) == FALSE

\* line 301: if (!rsp.success) return rsp
SetParamsStops(rsp) == ~Truthy(rsp, "success")

\* the loop of lines 295-305: the first position after i whose setter is applied,
\* or Len(ParamNames) + 1 when the loop runs out
NextSetter(params, i) ==
  LET later == {j \in DOMAIN ParamNames : j > i /\ SetterApplies(params, ParamNames[j])}
  IN IF later = {} THEN Len(ParamNames) + 1
     ELSE CHOOSE j \in later : \A k \in later : j <= k

\* run the loop from position i: send the next applied setter or return success
SetParamsLoop(params, i, sent, replies) ==
  LET j == NextSetter(params, i) IN
  IF j <= Len(ParamNames)
    THEN /\ _sendCmd("sp", SetterCmd[ParamNames[j]], sinusoidRunning)
         /\ pc' = [pc EXCEPT !["sp"] = IF SendOutcome.state = "pending" THEN "awaiting"
                                        ELSE "rejected"]
         /\ sp' = [params |-> params, idx |-> j,
                   sent |-> Append(sent, ParamNames[j]), replies |-> replies,
                   ret |-> SendOutcome]
    ELSE /\ pc' = [pc EXCEPT !["sp"] = "done"]
         /\ sp' = [params |-> params, idx |-> j, sent |-> sent, replies |-> replies,
                   ret |-> Resolved([success |-> TRUE])]
         /\ UNCHANGED <<pending, written, lastCallback, nSends>>

\* one aggregate call is followed from a quiescent connection
Quiescent == pending = None /\ pc["sp"] = "idle" /\ pc["gp"] = "idle"

SetParamsCall(params) ==
  /\ Quiescent
  /\ SetParamsLoop(params, 0, <<>>, <<>>)
  /\ UNCHANGED <<sinusoidRunning, streamCallback, result, nSamples, forwarded, bw, gp>>

\* the device delivers (err, rsp) for the pending setter: the promise settles
SetterReply(r) ==
  /\ pending = "sp"
  /\ pc["sp"] = "awaiting"
  /\ pending' = None
  /\ lastCallback' = [to |-> "sp", err |-> r.err, rsp |-> r.rsp,
                      outcome |-> SendCmdCallback(r.err, r.rsp)]
  /\ pc' = [pc EXCEPT !["sp"] = "settled"]
  /\ sp' = [sp EXCEPT !.replies = Append(@, r.rsp), !.ret = SendCmdCallback(r.err, r.rsp)]
  /\ UNCHANGED <<sinusoidRunning, streamCallback, written, result, nSends, nSamples,
                 forwarded, bw, gp>>

\* the continuation of `await setterMethod(...)`, lines 300-305
SetParamsResume ==
  /\ pc["sp"] = "settled"
  /\ IF sp.ret.state = "rejected"
       THEN /\ pc' = [pc EXCEPT !["sp"] = "rejected"]
            /\ UNCHANGED <<sp, pending, written, lastCallback, nSends>>
       ELSE IF SetParamsStops(sp.ret.val)
              THEN /\ pc' = [pc EXCEPT !["sp"] = "done"]
                   /\ UNCHANGED <<sp, pending, written, lastCallback, nSends>>
              ELSE SetParamsLoop(sp.params, sp.idx, sp.sent, sp.replies)
  /\ UNCHANGED <<sinusoidRunning, streamCallback, result, nSamples, forwarded, bw, gp>>

(***************************************************************************)
(* getParams: six getters awaited one after the other, lines 309-339.      *)
(***************************************************************************)
\* lines 310-325: the getters in the order they are awaited
GetterCmds == <<"get_fullstep_per_rev", "get_step_mode", "get_oc_threshold",
                "get_jog_mode_params", "get_max_mode_params", "get_kval_params">>

Undefined == "undefined"

\* rsp[key]
Get(obj, key) == IF key \in DOMAIN obj THEN obj[key] ELSE Undefined

\* delete obj.success
DeleteSuccess(obj) == [k \in DOMAIN obj \ {"success"} |-> obj[k]]

\* lines 328-335: the aggregate built from the six replies
GetParamsResult(rsps) ==
  [fullstepPerRev |-> Get(rsps[1], "fullstep_per_rev"),
   stepMode |-> Get(rsps[2], "step_mode"),
   threshold |-> Get(rsps[3], "threshold"),
   jogMode |-> DeleteSuccess(rsps[4]),
   maxMode |-> DeleteSuccess(rsps[5]),
   kval |-> DeleteSuccess(rsps[6])]

\* variant: a failing reply ends the sequence of getters
GetParamsNextShortCircuit(i, rsp) ==
  IF Truthy(rsp, "success") THEN i + 1 ELSE Len(GetterCmds) + 1

\* the getter awaited after getter i has answered rsp: the next one, whatever rsp says
GetParamsNext(i, rsp) == i + 1

GetParamsSend(i, sent, replies) ==
  /\ _sendCmd("gp", GetterCmds[i], sinusoidRunning)
  /\ pc' = [pc EXCEPT !["gp"] = IF SendOutcome.state = "pending" THEN "awaiting"
                                 ELSE "rejected"]
  /\ gp' = [idx |-> i, sent |-> Append(sent, GetterCmds[i]), replies |-> replies,
            ret |-> SendOutcome]

GetParamsCall ==
  /\ Quiescent
  /\ GetParamsSend(1, <<>>, <<>>)
  /\ UNCHANGED <<sinusoidRunning, streamCallback, result, nSamples, forwarded, bw, sp>>

GetterReply(r) ==
  /\ pending = "gp"
  /\ pc["gp"] = "awaiting"
  /\ pending' = None
  /\ lastCallback' = [to |-> "gp", err |-> r.err, rsp |-> r.rsp,
                      outcome |-> SendCmdCallback(r.err, r.rsp)]
  /\ pc' = [pc EXCEPT !["gp"] = "settled"]
  /\ gp' = [gp EXCEPT !.ret = SendCmdCallback(r.err, r.rsp)]
  /\ UNCHANGED <<sinusoidRunning, streamCallback, written, result, nSends, nSamples,
                 forwarded, bw, sp>>

\* the continuation of each `await this.getX()`
GetParamsResume ==
  /\ pc["gp"] = "settled"
  /\ IF gp.ret.state = "rejected"
       THEN /\ pc' = [pc EXCEPT !["gp"] = "rejected"]
            /\ UNCHANGED <<gp, pending, written, lastCallback, nSends>>
       ELSE LET replies == Append(gp.replies, gp.ret.val)
                j == GetParamsNext(gp.idx, gp.ret.val) IN
            IF j <= Len(GetterCmds)
              THEN GetParamsSend(j, gp.sent, replies)
              ELSE \* lines 328-337; the aggregate needs all six replies
                   /\ pc' = [pc EXCEPT !["gp"] = "done"]
                   /\ gp' = [gp EXCEPT !.replies = replies,
                               !.ret = IF Len(replies) = Len(GetterCmds)
                                         THEN Resolved(GetParamsResult(replies))
                                         ELSE Resolved([k \in {} |-> Undefined])]
                   /\ UNCHANGED <<pending, written, lastCallback, nSends>>
  /\ UNCHANGED <<sinusoidRunning, streamCallback, result, nSamples, forwarded, bw, sp>>

(***************************************************************************)
(* The gear ratio: moveTo scales by it, getPosition divides by it.         *)
(* A JavaScript number is a fraction n/d in lowest terms with d >= 0;      *)
(* d = 0 stands for Infinity (n = 1), -Infinity (n = -1) and NaN (n = 0).  *)
(***************************************************************************)
Abs(i) == IF i < 0 THEN -i ELSE i
Sign(i) == IF i < 0 THEN -1 ELSE IF i > 0 THEN 1 ELSE 0

RECURSIVE Gcd(_, _)
Gcd(a, b) == IF b = 0 THEN a ELSE Gcd(b, a % b)

Num(n, d) ==
  IF d = 0 THEN [n |-> Sign(n), d |-> 0]
  ELSE LET g == Gcd(Abs(n), Abs(d))
       IN  [n |-> (Sign(d) * n) \div g, d |-> Abs(d) \div g]

NaN == Num(0, 0)

\* a * b
Times(a, b) == Num(a.n * b.n, a.d * b.d)
\* a / b
Over(a, b) == Num(a.n * b.d, a.d * b.n)

\* line 9
DEFAULT_GEAR_RATIO == 1

\* the arguments tried for setGearRatio: 0, 1, 2, -1, 1/2
GearRatioArgs == {Num(0, 1), Num(1, 1), Num(2, 1), Num(-1, 1), Num(1, 2)}
\* the positions tried for moveTo: 0, 3, -5/2
PositionArgs == {Num(0, 1), Num(3, 1), Num(-5, 2)}

\* setGearRatio(gearRatio), lines 36-38
SetGearRatio(g) ==
  /\ gearRatio' = g
  /\ gear' = [gear EXCEPT !.changed = @ \/ gear.pc # "idle"]
  /\ UNCHANGED devicePosition

\* moveTo(position), lines 89-93
MoveTo(x) ==
  /\ gear.pc = "idle"
  /\ nSends < MaxSends
  /\ _sendCmd("c1", "move_to", sinusoidRunning)
  /\ gear' = [gear EXCEPT !.pc = "moving", !.x = x, !.g0 = gearRatio, !.changed = FALSE,
                          !.sent = Times(x, gearRatio)]
  /\ UNCHANGED <<sinusoidRunning, streamCallback, pc, result, nSamples, forwarded,
                 bw, sp, gp, gearRatio, devicePosition>>

\* the reply to move_to; a device that accepts the move is at the position sent
MoveToReply(r) ==
  /\ gear.pc = "moving"
  /\ pending = "c1"
  /\ pending' = None
  /\ lastCallback' = [to |-> "c1", err |-> r.err, rsp |-> r.rsp,
                      outcome |-> SendCmdCallback(r.err, r.rsp)]
  /\ LET o == SendCmdCallback(r.err, r.rsp)
         moved == o.state = "resolved" /\ Truthy(o.val, "success")
     IN  /\ devicePosition' = IF moved THEN gear.sent ELSE devicePosition
         /\ gear' = [gear EXCEPT !.pc = IF moved THEN "moved" ELSE "idle"]
  /\ UNCHANGED <<sinusoidRunning, streamCallback, written, pc, result, nSends,
                 nSamples, forwarded, bw, sp, gp, gearRatio>>

\* getPosition(), lines 164-165: the command is sent
GetPosition ==
  /\ gear.pc = "moved"
  /\ nSends < MaxSends
  /\ _sendCmd("c1", "get_position", sinusoidRunning)
  /\ gear' = [gear EXCEPT !.pc = "reading"]
  /\ UNCHANGED <<sinusoidRunning, streamCallback, pc, result, nSamples, forwarded,
                 bw, sp, gp, gearRatio, devicePosition>>

\* lines 166-169 on the reply rsp
GetPositionResult(rsp) ==
  LET position == IF "position" \in DOMAIN rsp THEN rsp.position ELSE NaN
  IN  [k \in DOMAIN rsp \cup {"position"} |->
         IF k = "position" THEN Over(position, gearRatio) ELSE rsp[k]]

\* the reply to get_position: a successful reply carries the device's position
GetPositionReply(r) ==
  /\ gear.pc = "reading"
  /\ pending = "c1"
  /\ pending' = None
  /\ lastCallback' = [to |-> "c1", err |-> r.err, rsp |-> r.rsp,
                      outcome |-> SendCmdCallback(r.err, r.rsp)]
  /\ LET o == SendCmdCallback(r.err, r.rsp)
         rsp == IF Truthy(o.val, "success")
                THEN [success |-> TRUE, position |-> devicePosition]
                ELSE o.val
     IN  gear' = [gear EXCEPT !.pc = IF o.state = "resolved" THEN "got" ELSE "failed",
                             !.got = IF o.state = "resolved"
                                     THEN Resolved(GetPositionResult(rsp)) ELSE o]
  /\ UNCHANGED <<sinusoidRunning, streamCallback, written, pc, result, nSends,
                 nSamples, forwarded, bw, sp, gp, gearRatio, devicePosition>>

(***************************************************************************)
(* autosetPositionProcedure: autoset_position, move_to the start angle,    *)
(* busyWait, autoset_position again.                                       *)
(***************************************************************************)
\* line 8
AUTOSET_POSITION_START_ANGLE == 5

\* the message each step's failure rejects with
AutosetRejectMsg == [autoset1 |-> "autoset: set position failed",
                     move |-> "autoset: move to start position failed",
                     autoset2 |-> "autoset: set position failed"]

\* lines 207, 212, 219: if (!rsp.success) reject(...); the first reject settles
\* the promise, the later ones have no effect
AutosetReject(promise, stage, rsp) ==
  IF ~Truthy(rsp, "success") /\ promise = Unsettled
  THEN Rejected(AutosetRejectMsg[stage]) ELSE promise

\* lines 203-206: the promise is made and the first autoset_position is sent
AutosetProcedureCall ==
  /\ auto.pc = "idle"
  /\ _sendCmd("auto", "autoset_position", sinusoidRunning)
  /\ auto' = [auto EXCEPT !.pc = "autoset1", !.promise = Unsettled]
  /\ UNCHANGED <<sinusoidRunning, streamCallback, pc, result, nSamples, forwarded,
                 bw, sp, gp>>

\* the reply to a command of the procedure settles the promise it awaits
AutosetReply(r) ==
  /\ auto.pc \in {"autoset1", "move", "autoset2"}
  /\ pending = "auto"
  /\ pending' = None
  /\ lastCallback' = [to |-> "auto", err |-> r.err, rsp |-> r.rsp,
                      outcome |-> SendCmdCallback(r.err, r.rsp)]
  /\ auto' = [auto EXCEPT !.rsp = SendCmdCallback(r.err, r.rsp), !.settled = TRUE]
  /\ UNCHANGED <<sinusoidRunning, streamCallback, written, pc, result, nSends,
                 nSamples, forwarded, bw, sp, gp>>

\* the procedure after an await on a rejected promise: the executor throws
AutosetThrows ==
  /\ auto.settled /\ auto.rsp.state = "rejected"
  /\ auto' = [auto EXCEPT !.pc = "threw", !.settled = FALSE]
  /\ UNCHANGED coreVars

\* lines 206-211: after the first autoset_position, moveTo(start angle)
AutosetMoveTo ==
  /\ auto.pc = "autoset1" /\ auto.settled /\ auto.rsp.state = "resolved"
  /\ _sendCmd("auto", "move_to", sinusoidRunning)
  /\ auto' = [auto EXCEPT
       !.pc = "move", !.settled = FALSE,
       !.promise = AutosetReject(@, "autoset1", auto.rsp.val),
       !.failedAt = IF @ = 0 /\ ~Truthy(auto.rsp.val, "success") THEN Len(written) ELSE @,
       !.position = Times(Num(AUTOSET_POSITION_START_ANGLE, 1), gearRatio)]
  /\ UNCHANGED <<sinusoidRunning, streamCallback, pc, result, nSamples, forwarded,
                 bw, sp, gp>>

\* lines 211-215: after move_to, busyWait() is called
AutosetBusyWait ==
  /\ auto.pc = "move" /\ auto.settled /\ auto.rsp.state = "resolved"
  /\ BusyWaitCall
  /\ auto' = [auto EXCEPT
       !.pc = "busyWait", !.settled = FALSE,
       !.promise = AutosetReject(@, "move", auto.rsp.val),
       !.failedAt = IF @ = 0 /\ ~Truthy(auto.rsp.val, "success") THEN Len(written) ELSE @]

\* lines 215-217: busyWait() has resolved, the second autoset_position is sent
AutosetAgain ==
  /\ auto.pc = "busyWait" /\ pc["bw"] = "done"
  /\ pc' = [pc EXCEPT !["bw"] = "idle"]
  /\ _sendCmd("auto", "autoset_position", sinusoidRunning)
  /\ auto' = [auto EXCEPT !.pc = "autoset2"]
  /\ UNCHANGED <<sinusoidRunning, streamCallback, result, nSamples, forwarded,
                 bw, sp, gp>>

\* lines 218-221: after the second autoset_position the executor ends
AutosetEnd ==
  /\ auto.pc = "autoset2" /\ auto.settled /\ auto.rsp.state = "resolved"
  /\ auto' = [auto EXCEPT
       !.pc = "end", !.settled = FALSE,
       !.promise = AutosetReject(@, "autoset2", auto.rsp.val),
       !.failedAt = IF @ = 0 /\ ~Truthy(auto.rsp.val, "success") THEN Len(written) ELSE @]
  /\ UNCHANGED coreVars

(***************************************************************************)
(* The callback argument: promise.then(rsp => callback(null, rsp))         *)
(*                               .catch(err => callback(err, null))        *)
(* in _sendCmd (lines 402-406) and in busyWait (lines 146-150).            *)
(***************************************************************************)
\* the calls that take a callback here: a command of caller c1, and busyWait
WithCallback == {"c1", "bw"}

\* the callback argument: absent, a function that returns, a function that throws
CallbackKinds == {"absent", "returns", "throws"}

\* lines 402 and 146: if (callback && typeof callback == 'function')
CallbackAttached(kind) == kind # "absent"

NoCallback == [pc |-> "idle", kind |-> "absent", calls |-> <<>>, error |-> Null]
Attach(kind) == [pc |-> IF CallbackAttached(kind) THEN "attached" ELSE "none",
                 kind |-> kind, calls |-> <<>>, error |-> Null]

\* the promise the handlers are chained to, once it is settled; busyWait
\* resolves with no value (line 144) and never rejects
PromiseSettled(k) == IF k = "bw" THEN pc[k] = "done" ELSE pc[k] \in {"resolved", "rejected"}
PromiseOf(k) == IF k = "bw" THEN Resolved(Undefined) ELSE result[k]

\* a command is sent with a callback argument, line 386
CallWithCallback(c, kind) ==
  /\ cb[c].pc = "idle"
  /\ \E cmd \in CallerCmds : Call(c, cmd)
  /\ cb' = [cb EXCEPT ![c] = Attach(kind)]

\* busyWait(callback), line 125
BusyWaitWithCallback(kind) ==
  /\ cb["bw"].pc = "idle"
  /\ BusyWaitCall
  /\ cb' = [cb EXCEPT !["bw"] = Attach(kind)]

\* .then((rsp) => callback(null, rsp)) on a resolved promise; a callback that
\* throws rejects the promise .then returned, which .catch is chained to
ThenHandler(k) ==
  /\ cb[k].pc = "attached"
  /\ PromiseSettled(k) /\ PromiseOf(k).state = "resolved"
  /\ cb' = [cb EXCEPT ![k] = [@ EXCEPT
       !.calls = Append(@, [err |-> Null, rsp |-> PromiseOf(k).val]),
       !.pc = IF cb[k].kind = "throws" THEN "catching" ELSE "end",
       !.error = IF cb[k].kind = "throws" THEN "thrown by callback" ELSE Null]]
  /\ UNCHANGED coreVars

\* .catch((err) => callback(err, null)): on the rejection of the promise
\* itself, which .then passes on, or on the rejection .then produced
CatchHandler(k) ==
  /\ \/ cb[k].pc = "catching"
     \/ cb[k].pc = "attached" /\ PromiseSettled(k) /\ PromiseOf(k).state = "rejected"
  /\ cb' = [cb EXCEPT ![k] = [@ EXCEPT
       !.calls = Append(@, [err |-> IF cb[k].pc = "catching" THEN cb[k].error
                                    ELSE PromiseOf(k).error,
                            rsp |-> Null]),
       !.pc = "end"]]
  /\ UNCHANGED coreVars

\* the call is over and its handlers have run: the caller may call again
CallbackReturn(k) ==
  /\ cb[k].pc \in {"none", "end"}
  /\ IF k = "bw" THEN BusyWaitReturn ELSE Return(k)
  /\ cb' = [cb EXCEPT ![k] = NoCallback]

\* lines 21-26 and the bookkeeping of the calls not yet made
InitAux ==
  /\ stream = [last |-> [err |-> Null, data |-> SampleData], ended |-> FALSE]
  /\ gearRatio = Num(DEFAULT_GEAR_RATIO, 1)
  /\ devicePosition = Num(0, 1)
  /\ gear = [pc |-> "idle", x |-> Num(0, 1), g0 |-> Num(DEFAULT_GEAR_RATIO, 1),
             sent |-> Num(0, 1), changed |-> FALSE, got |-> NoResult]
  /\ auto = [pc |-> "idle", settled |-> FALSE, rsp |-> NoResult, promise |-> NoResult,
             failedAt |-> 0, position |-> Num(0, 1)]
  /\ cb = [k \in WithCallback |-> NoCallback]

Init ==
  /\ sinusoidRunning = FALSE
  /\ streamCallback = Null
  /\ pending = None
  /\ written = <<>>
  /\ pc = [t \in Tasks |-> "idle"]
  /\ result = [t \in Tasks |-> NoResult]
  /\ lastCallback = [to |-> None, err |-> Null, rsp |-> NoLine, outcome |-> NoResult]
  /\ nSends = 0
  /\ nSamples = 0
  /\ forwarded = 0
  /\ bw = [startedActive |-> FALSE, polls |-> 0]
  /\ sp = [params |-> [n \in {ParamNames[i] : i \in DOMAIN ParamNames} |-> "absent"],
           idx |-> 0, sent |-> <<>>, replies |-> <<>>, ret |-> NoResult]
  /\ gp = [idx |-> 0, sent |-> <<>>, replies |-> <<>>, ret |-> NoResult]
  /\ InitAux

\* the calls of the other specifications are not made: their variables rest
Rest == UNCHANGED <<stream, gearVars, auto, cb>>

Next ==
  \/ \E c \in Callers, cmd \in CallerCmds : Call(c, cmd) /\ Rest
  \/ \E c \in Callers, r \in Responses("move_to") : CallReply(c, r) /\ Rest
  \/ \E c \in Callers : Return(c) /\ Rest
  \/ BusyWaitCall /\ Rest
  \/ BusyWaitTick /\ Rest
  \/ \E r \in Responses("is_busy") : BusyWaitReply(r) /\ Rest
  \/ BusyWaitReturn /\ Rest
  \/ SinusoidCall /\ Rest
  \/ \E r \in Responses("sinusoid") : SinusoidReply(r) /\ Rest
  \/ SinusoidReturn /\ Rest
  \/ \E s \in Samples : StreamSample(s) /\ Rest

Spec == Init /\ [][Next]_vars

NextParams ==
  \/ \E params \in ParamsArgs : SetParamsCall(params) /\ Rest
  \/ \E r \in Responses(PendingCmd) : SetterReply(r) /\ Rest
  \/ SetParamsResume /\ Rest
  \/ GetParamsCall /\ Rest
  \/ \E r \in Responses(PendingCmd) : GetterReply(r) /\ Rest
  \/ GetParamsResume /\ Rest

SpecParams == Init /\ [][NextParams]_vars

(***************************************************************************)
(* The streaming session on its own: sinusoid(), the samples of the        *)
(* session and one caller, with the last sample and the end of the session *)
(* recorded in stream.                                                     *)
(***************************************************************************)
\* sinusoid() opens a session: no terminating sample has been seen in it
SinusoidCallOpens ==
  /\ SinusoidCall
  /\ stream' = [stream EXCEPT !.ended = FALSE]

\* streamCallbackWrapped(err, data) with the sample recorded
StreamSampleSeen(s) ==
  /\ StreamSample(s)
  /\ stream' = [last |-> s, ended |-> stream.ended \/ EmptyOrError(s)]

NextStream ==
  \/ SinusoidCallOpens /\ UNCHANGED <<gearVars, auto, cb>>
  \/ \E r \in Responses("sinusoid") : SinusoidReply(r) /\ Rest
  \/ SinusoidReturn /\ Rest
  \/ \E s \in Samples : StreamSampleSeen(s) /\ UNCHANGED <<gearVars, auto, cb>>
  \/ \E cmd \in CallerCmds : Call("c1", cmd) /\ Rest
  \/ \E r \in Responses("move_to") : CallReply("c1", r) /\ Rest
  \/ Return("c1") /\ Rest

SpecStream == Init /\ [][NextStream]_vars

(***************************************************************************)
(* The gear ratio on its own: setGearRatio at any moment, and one caller   *)
(* that moves to a position and reads the position back.                   *)
(***************************************************************************)
NextGear ==
  \/ \E g \in GearRatioArgs :
       SetGearRatio(g) /\ UNCHANGED <<coreVars, stream, auto, cb>>
  \/ \E x \in PositionArgs : MoveTo(x) /\ UNCHANGED <<stream, auto, cb>>
  \/ \E r \in Responses("move_to") : MoveToReply(r) /\ UNCHANGED <<stream, auto, cb>>
  \/ GetPosition /\ UNCHANGED <<stream, auto, cb>>
  \/ \E r \in Responses("get_position") :
       GetPositionReply(r) /\ UNCHANGED <<stream, auto, cb>>

SpecGear == Init /\ [][NextGear]_vars

(***************************************************************************)
(* autosetPositionProcedure on its own, with the gear ratio set at any     *)
(* moment and the busyWait the procedure calls.                            *)
(***************************************************************************)
NextAutoset ==
  \/ \E g \in GearRatioArgs :
       SetGearRatio(g) /\ UNCHANGED <<coreVars, stream, auto, cb>>
  \/ AutosetProcedureCall /\ UNCHANGED <<stream, gearVars, cb>>
  \/ \E r \in Responses(PendingCmd) : AutosetReply(r) /\ UNCHANGED <<stream, gearVars, cb>>
  \/ AutosetThrows /\ UNCHANGED <<stream, gearVars, cb>>
  \/ AutosetMoveTo /\ UNCHANGED <<stream, gearVars, cb>>
  \/ AutosetBusyWait /\ UNCHANGED <<stream, gearVars, cb>>
  \/ BusyWaitTick /\ Rest
  \/ \E r \in Responses("is_busy") : BusyWaitReply(r) /\ Rest
  \/ AutosetAgain /\ UNCHANGED <<stream, gearVars, cb>>
  \/ AutosetEnd /\ UNCHANGED <<stream, gearVars, cb>>

SpecAutoset == Init /\ [][NextAutoset]_vars

(***************************************************************************)
(* Calls with a callback argument: a command and a busyWait, each followed *)
(* by the handlers chained to its promise.                                 *)
(***************************************************************************)
NextCallback ==
  \/ \E kind \in CallbackKinds :
       CallWithCallback("c1", kind) /\ UNCHANGED <<stream, gearVars, auto>>
  \/ \E r \in Responses("move_to") : CallReply("c1", r) /\ Rest
  \/ \E kind \in CallbackKinds :
       BusyWaitWithCallback(kind) /\ UNCHANGED <<stream, gearVars, auto>>
  \/ BusyWaitTick /\ Rest
  \/ \E r \in Responses("is_busy") : BusyWaitReply(r) /\ Rest
  \/ \E k \in WithCallback : ThenHandler(k) /\ UNCHANGED <<stream, gearVars, auto>>
  \/ \E k \in WithCallback : CatchHandler(k) /\ UNCHANGED <<stream, gearVars, auto>>
  \/ \E k \in WithCallback : CallbackReturn(k) /\ UNCHANGED <<stream, gearVars, auto>>

SpecCallback == Init /\ [][NextCallback]_vars

(***************************************************************************)
(* One busyWait beside one streaming session, under fair scheduling: the   *)
(* 10 ms timer fires and the device answers the is_busy it has received.   *)
(* The device stops reporting busy while a further poll is still possible. *)
(***************************************************************************)
\* a reply that reports the motor busy
StillBusy(r) == r.err = Null /\ r.rsp = LineBusy

\* the sends still open to the wait after the one a later sinusoid() may take
PollsLeft == MaxSends - nSends - (IF pc["sin"] = "idle" THEN 1 ELSE 0)

BusyWaitReplyLive(r) ==
  /\ StillBusy(r) => PollsLeft > 0
  /\ BusyWaitReply(r)

NextLive ==
  \/ BusyWaitCall /\ Rest
  \/ BusyWaitTick /\ Rest
  \/ \E r \in Responses("is_busy") : BusyWaitReplyLive(r) /\ Rest
  \/ SinusoidCall /\ Rest
  \/ \E r \in Responses("sinusoid") : SinusoidReply(r) /\ Rest
  \/ \E s \in Samples : StreamSample(s) /\ Rest

SpecLive ==
  /\ Init /\ [][NextLive]_vars
  /\ WF_vars(BusyWaitTick /\ Rest)
  /\ WF_vars(\E r \in Responses("is_busy") : BusyWaitReplyLive(r) /\ Rest)

(***************************************************************************)
(* Properties.                                                             *)
(***************************************************************************)
Awaiting == {t \in Tasks : pc[t] = "awaiting"}

IsBusyWaitPoll(e) == e.cmd = "is_busy" /\ e.by = "bw"

\* the device has just handed (err, rsp) to the waiter t
ReplyStep(t) == pending = t /\ pending' = None /\ lastCallback'.to = t

\* C1: every is_busy that busyWait wrote to the transport was sent at a tick
\* at which sinusoidRunning was false.
C1_NoPollWhileStreaming ==
  \A i \in DOMAIN written : IsBusyWaitPoll(written[i]) => ~written[i].running

\* a busyWait that started during a session sits through it without having polled
C1_Witness ==
  /\ pc["bw"] = "sleeping" /\ sinusoidRunning
  /\ bw.startedActive /\ bw.polls = 0
  /\ nSamples > 0

\* C2: a busyWait that started while a session was active completes on the
\* session's deactivation alone: it never sends an is_busy command (and so never
\* depends on a device reply).
C2_SessionWaitNeverPolls == bw.startedActive => bw.polls = 0

\* C3: a _sendCmd issued while another command awaits its reply is rejected with
\* ProtocolViolation in the same step and leaves the transport untouched.
C3_SecondSendRejected ==
  [][(nSends' = nSends + 1 /\ pending # None) =>
       /\ written' = written
       /\ pending' = pending
       /\ lastCallback'.err = "ProtocolViolation"
       /\ lastCallback'.outcome = Rejected("ProtocolViolation")
       /\ \A c \in Callers \cup {"sin"} :
            lastCallback'.to = c /\ pc[c] = "idle" =>
              pc'[c] = "rejected" /\ result'[c] = Rejected("ProtocolViolation")]_vars

\* a caller was refused while another command was pending, and nothing was written
C3_Witness ==
  /\ pending # None
  /\ nSends = Len(written) + 1
  /\ \E c \in Callers : pc[c] = "rejected" /\ result[c] = Rejected("ProtocolViolation")

\* C4: at most one _sendCmd promise is awaiting a reply, and it is the device's
\* pending waiter.
C4_AtMostOneWaiter ==
  /\ Cardinality(Awaiting) <= 1
  /\ \A t \in Awaiting : pending = t

\* a sinusoid still awaits its acknowledgement while a sample has arrived, a caller
\* has tried to send and busyWait is ticking
C4_Witness ==
  /\ pc["sin"] = "awaiting"
  /\ nSamples > 0
  /\ \E c \in Callers : pc[c] = "rejected"
  /\ pc["bw"] \in {"sleeping", "stuck"}

\* C8: an is_busy reply with success=false ends busyWait at once (it resolves),
\* and a finished busyWait sends nothing more.
C8_FailedPollIsDone ==
  [][/\ (ReplyStep("bw") /\ lastCallback'.outcome.state = "resolved"
           /\ ~Truthy(lastCallback'.outcome.val, "success"))
          => pc'["bw"] = "done"
     /\ pc["bw"] = "done" /\ pc'["bw"] = "done" => bw' = bw]_vars

\* busyWait is done after a success=false reply that still reports busy
C8_Witness ==
  /\ pc["bw"] = "done"
  /\ lastCallback.to = "bw" /\ lastCallback.rsp = LineFailBusy
  /\ ~bw.startedActive

\* C9: a success=true reply ends busyWait exactly when its busy flag is false; on
\* a busy reply the wait goes back to sleep; is_busy is sent only when no earlier
\* is_busy of the wait is unanswered.
C9_PollUntilIdle ==
  [][/\ (ReplyStep("bw") /\ lastCallback'.outcome.state = "resolved"
           /\ Truthy(lastCallback'.outcome.val, "success"))
          => pc'["bw"] = (IF Truthy(lastCallback'.outcome.val, "is_busy")
                            THEN "sleeping" ELSE "done")
     /\ bw'.polls = bw.polls + 1 => pc["bw"] = "sleeping" /\ pending # "bw"]_vars

\* busyWait polled, was told busy, polled again and finished on the idle reply
C9_Witness ==
  /\ pc["bw"] = "done"
  /\ bw.polls >= 2
  /\ lastCallback.to = "bw" /\ lastCallback.rsp = LineIdle

\* C10: when the line delivered for a pending command does not parse, the
\* command's promise is rejected, no waiter is left, the device accepts the next
\* send, and a rejected promise is never resolved afterwards.
C10_MalformedReplyRejects ==
  [][\A c \in Callers :
       /\ (ReplyStep(c) /\ lastCallback'.err = Null /\ ~JSONparse(lastCallback'.rsp).ok)
            => /\ pc'[c] = "rejected"
               /\ result'[c].state = "rejected"
               /\ Awaiting' = {}
               /\ DeviceAccepts'
       /\ result[c].state = "rejected" => result'[c].state # "resolved"]_vars

\* after a malformed reply rejected one caller, the next command was written and
\* answered normally
C10_Witness ==
  \E c, d \in Callers :
    /\ c # d
    /\ result[c] = Rejected("SyntaxError")
    /\ result[d].state = "resolved"
    /\ Len(written) >= 2
    /\ written[Len(written) - 1].by = c
    /\ written[Len(written)].by = d

(***************************************************************************)
(* Properties of setParams and getParams.                                  *)
(***************************************************************************)
BySetParams(e) == e.by = "sp"
ByGetParams(e) == e.by = "gp"

\* the commands setParams / getParams have written, in order
SetterCmdsWritten == [i \in DOMAIN SelectSeq(written, BySetParams) |->
                        SelectSeq(written, BySetParams)[i].cmd]
GetterCmdsWritten == [i \in DOMAIN SelectSeq(written, ByGetParams) |->
                        SelectSeq(written, ByGetParams)[i].cmd]

SetterOrder == <<"set_fullstep_per_rev", "set_step_mode", "set_oc_threshold",
                 "set_jog_mode_params", "set_max_mode_params", "set_kval_params">>
SetterField == <<"fullstepPerRev", "stepMode", "threshold", "jogMode", "maxMode", "kval">>
GetterOrder == <<"get_fullstep_per_rev", "get_step_mode", "get_oc_threshold",
                 "get_jog_mode_params", "get_max_mode_params", "get_kval_params">>

PosIn(seq, x) == CHOOSE i \in DOMAIN seq : seq[i] = x

\* the k-th reply setParams received is a parsed reply with success=false
SetterFailed(k) ==
  JSONparse(sp.replies[k]).ok /\ ~Truthy(JSONparse(sp.replies[k]).obj, "success")

IsPrefix(a, b) == Len(a) <= Len(b) /\ \A i \in DOMAIN a : a[i] = b[i]

\* C5: setParams sends setters in the fixed order, one at a time, each after the
\* previous reply; a success=false reply is the last one, it is returned as it
\* is and nothing is sent after it; with no failure the result is {success: true}.
C5_SetParamsOrderAndShortCircuit ==
  /\ \A i, j \in DOMAIN SetterCmdsWritten :
       i < j => PosIn(SetterOrder, SetterCmdsWritten[i]) < PosIn(SetterOrder, SetterCmdsWritten[j])
  /\ Len(SetterCmdsWritten) = Len(sp.replies) + (IF pc["sp"] = "awaiting" THEN 1 ELSE 0)
  /\ \A k \in DOMAIN sp.replies :
       SetterFailed(k) =>
         /\ k = Len(sp.replies)
         /\ pc["sp"] \in {"settled", "done"}
         /\ sp.ret = Resolved(JSONparse(sp.replies[k]).obj)
  /\ (pc["sp"] = "done" /\ \A k \in DOMAIN sp.replies : ~SetterFailed(k))
       => sp.ret = Resolved([success |-> TRUE])

\* setParams returned the failing reply of its second setter although a third
\* field was given
C5_Witness ==
  /\ pc["sp"] = "done"
  /\ sp.params["fullstepPerRev"] = "truthy"
  /\ sp.params["stepMode"] = "truthy"
  /\ sp.params["threshold"] = "truthy"
  /\ sp.replies = <<LineOk, LineFailMsg>>
  /\ SetterCmdsWritten = <<"set_fullstep_per_rev", "set_step_mode">>
  /\ sp.ret = Resolved([success |-> FALSE, message |-> "bad value"])

\* C6: when setParams returns, the setter of a field has been sent exactly if the
\* field is present in params (whatever its value) and no earlier setter failed.
C6_SkipsExactlyAbsentFields ==
  pc["sp"] = "done" =>
    \A i \in DOMAIN SetterOrder :
      (\E n \in DOMAIN SetterCmdsWritten : SetterCmdsWritten[n] = SetterOrder[i])
        <=> /\ sp.params[SetterField[i]] # "absent"
            /\ ~\E k \in DOMAIN sp.replies :
                  SetterFailed(k) /\ PosIn(SetterOrder, SetterCmdsWritten[k]) < i

\* C7: getParams sends the six getters in the fixed order, goes on after a reply
\* with success=false (only a rejected promise ends it early), and returns a
\* mapping with all six keys.
C7_GetParamsTotal ==
  /\ IsPrefix(GetterCmdsWritten, GetterOrder)
  /\ pc["gp"] \in {"awaiting", "settled"} => Len(GetterCmdsWritten) = Len(gp.replies) + 1
  /\ pc["gp"] = "rejected" => gp.ret.state = "rejected"
  /\ pc["gp"] = "done" =>
       /\ GetterCmdsWritten = GetterOrder
       /\ gp.ret.state = "resolved"
       /\ DOMAIN gp.ret.val =
            {"fullstepPerRev", "stepMode", "threshold", "jogMode", "maxMode", "kval"}

\* getParams returned its mapping although the first and the fourth getter failed
C7_Witness ==
  /\ pc["gp"] = "done"
  /\ Len(gp.replies) = 6
  /\ ~Truthy(gp.replies[1], "success")
  /\ ~Truthy(gp.replies[4], "success")
  /\ Truthy(gp.replies[6], "success")
  /\ GetterCmdsWritten = GetterOrder

(***************************************************************************)
(* The streaming session.                                                  *)
(***************************************************************************)
\* a step that delivers a sample to the stream callback
SampleStep == nSamples' = nSamples + 1
\* a step in which sendCmd is called
SendStep == nSends' = nSends + 1
\* the command of the step was written and awaits its reply
SendAccepted == Len(written') = Len(written) + 1 /\ pending' # None

C12_NoForwardAfterEnd ==
  [][(SampleStep /\ stream.ended) => forwarded' = forwarded]_vars

\* C15: when the sinusoid command is written the wrapped stream callback is
\* registered and sinusoidRunning is true; every sample finds the callback
\* registered, and finds the session active unless a terminating sample of
\* that session came before it.
C15_ActiveBeforeWrite ==
  /\ [](\A i \in DOMAIN written : written[i].cmd = "sinusoid" => written[i].running)
  /\ [][/\ (Len(written') = Len(written) + 1
             /\ written'[Len(written')].cmd = "sinusoid")
             => (streamCallback' = Wrapped /\ sinusoidRunning')
        /\ SampleStep =>
             (streamCallback = Wrapped /\ (sinusoidRunning \/ stream.ended))]_vars

\* a sample arrived before the reply to the sinusoid command and found the
\* session active
C15_Witness ==
  /\ pc["sin"] = "awaiting"
  /\ nSamples = 1 /\ ~EmptyOrError(stream.last)
  /\ sinusoidRunning /\ streamCallback = Wrapped

\* C17: a sinusoid() call that failed, with no sample delivered, leaves
\* sinusoidRunning false.
C17_FailedSinusoidInactive ==
  (/\ nSamples = 0
   /\ \/ pc["sin"] = "rejected"
      \/ pc["sin"] = "resolved" /\ ~Truthy(result["sin"].val, "success"))
  => ~sinusoidRunning


(***************************************************************************)
(* The gear ratio.                                                         *)
(***************************************************************************)
\* C13: the gear ratio is non-zero in every reachable state.
C13_GearRatioNonZero == gearRatio # Num(0, 1)

\* C14: with a gear ratio g other than 1 that does not change between the
\* two calls, getPosition() after moveTo(x) returns x.
C14_RoundTrip ==
  (gear.pc = "got" /\ Truthy(gear.got.val, "success")
   /\ gear.g0 # Num(1, 1) /\ ~gear.changed)
  => gear.got.val.position = gear.x


(***************************************************************************)
(* autosetPositionProcedure.                                               *)
(***************************************************************************)
\* C18: once a reply to a step of autosetPositionProcedure has success=false,
\* the procedure writes no further command.
C18_StopsAtFirstFailure ==
  auto.failedAt > 0 => Len(written) = auto.failedAt


(***************************************************************************)
(* The callback argument.                                                  *)
(***************************************************************************)
\* C19: the callback given to a command or to busyWait is invoked at most
\* once per call, and exactly once when the handlers of the call have run.
C19_CallbackOnce ==
  \A k \in WithCallback :
    /\ Len(cb[k].calls) <= 1
    /\ cb[k].pc = "end" => Len(cb[k].calls) = 1


(***************************************************************************)
(* Termination of busyWait.                                                *)
(***************************************************************************)
\* C16: under fair scheduling, if every active session is eventually ended
\* by a terminating sample (the session flag is false again and again) and
\* the device answers the is_busy queries of the
\* wait (none is refused or answered with an error or a malformed line) and
\* eventually reports success=false or not busy, busyWait() eventually
\* resolves; every reply with success=false resolves it at once.
C16_BusyWaitResolves ==
  ([]<>(~sinusoidRunning) /\ [](pc["bw"] # "stuck"))
  => [](pc["bw"] = "sleeping" => <>(pc["bw"] = "done"))

\* a wait begun in an active session resolved after the session ended, on a
\* failed status query that followed a busy one
C16_Witness ==
  /\ pc["bw"] = "done"
  /\ bw.startedActive /\ bw.polls = 2
  /\ ~sinusoidRunning
  /\ lastCallback.to = "bw" /\ lastCallback.rsp = LineFail


====
